---- MODULE Spec2Model ----
(***************************************************************************)
(* Gene-tumor correlation visualizers: the GCH1-centred network            *)
(* (src/tumor_network.py, MultiTumorNetworkVisualizer) and the poor        *)
(* prognosis tree (src/bad_survival_tree.py, BadSurvivalTreeVisualizer).   *)
(*                                                                         *)
(* Scores (PCC) are integers in hundredths: 50 stands for 0.50.  Sizes and *)
(* widths are exact rationals [num, den] with den > 0.  A Python dict is a *)
(* sequence of [key, val] records in insertion order.                      *)
(***************************************************************************)
EXTENDS Integers, Sequences, FiniteSets, TLC

\* ------------------------------------------------------------------ bounds
\* Size of the data directory: its data rows over all the CSV files, plus one
\* for every defective file (unreadable, or lacking a required column).
MaxDirectorySize == 3

\* The CSV files of the data directory (one per tumor type).
TumorNames == {"ACC Tumor", "BRCA Tumor"}
\* Gene symbols that occur in the tables.
Genes == {"g1", "g2"}
\* PCC values that occur in the tables, in hundredths.
Scores == {40, 50, 90}
\* self.min_correlation = 0.5 and self.max_genes_per_tumor = 1000 of __init__.
default_min_correlation == 50
default_max_genes_per_tumor == 1000
\* Values of the max_genes_per_tumor setting.
Caps == {1, default_max_genes_per_tumor}
\* Values of the min_correlation setting, in hundredths.
MinCorrelations == {default_min_correlation}
\* The two programs.
Variants == {"network", "tree"}

\* Marks the 'Gene Symbol' cell of a table that has no such column.
NoColumn == "<no Gene Symbol column>"

\* ------------------------------------------------------- program constants
\* PCC 1.0, the upper end of the input range used by the size formulas.
max_correlation == 100
\* node_size_range and edge_width_range of each variant; widths in tenths.
node_size_range(v) == IF v = "network" THEN <<3, 10>> ELSE <<8, 16>>
edge_width_range10(v) == IF v = "network" THEN <<3, 15>> ELSE <<5, 25>>
central_id(v) == IF v = "network" THEN "GCH1" ELSE "Poor Prognosis"
central_node_size(v) == IF v = "network" THEN 30 ELSE 45
tumor_node_size(v) == IF v = "network" THEN 20 ELSE 30
cross_enlarge_network == 2

\* --------------------------------------------------------------- rationals
Rat(n, d) == [num |-> n, den |-> d]
RatInt(n) == Rat(n, 1)
RatLeq(a, b) == a.num * b.den <= b.num * a.den
RatEq(a, b) == a.num * b.den = b.num * a.den
RatAdd(a, n) == Rat(a.num + n * a.den, a.den)

\* ------------------------------------------------------------ Python dicts
DictHas(d, k) == \E i \in 1..Len(d) : d[i].key = k
DictIdx(d, k) == CHOOSE i \in 1..Len(d) : d[i].key = k
DictGet(d, k) == d[DictIdx(d, k)].val
DictKeys(d) == {d[i].key : i \in 1..Len(d)}
\* d[k] = v: an existing key keeps its position, a new key goes last.
DictSet(d, k, v) ==
    IF DictHas(d, k) THEN [d EXCEPT ![DictIdx(d, k)].val = v]
    ELSE Append(d, [key |-> k, val |-> v])

\* ------------------------------------------------------------------ inputs
Row(g, s) == [gene |-> g, pcc |-> s]
RowsWithGene == {Row(g, s) : g \in Genes, s \in Scores}
RowsWithoutGene == {Row(NoColumn, s) : s \in Scores}
SeqsOfLen(S, n) == [1..n -> S]

\* A CSV file: readable with both columns ("ok"), readable without the
\* 'Gene Symbol' column ("no_gene"), readable without the 'PCC' column
\* ("no_pcc"), or not readable at all ("unreadable": missing or malformed).
\* SourcesOfSize(n): the files that count n towards the directory size.
SourcesOfSize(n) ==
    {[kind |-> "ok", rows |-> r] : r \in SeqsOfLen(RowsWithGene, n)}
    \cup (IF n >= 1
          THEN {[kind |-> "no_gene", rows |-> r] : r \in SeqsOfLen(RowsWithoutGene, n - 1)}
          ELSE {})
    \cup (IF n = 1 THEN {[kind |-> "no_pcc", rows |-> <<>>],
                         [kind |-> "unreadable", rows |-> <<>>]}
          ELSE {})

RECURSIVE Directories(_, _)
\* Every assignment of a file to each tumor of ts, of total size at most budget.
Directories(ts, budget) ==
    IF ts = {} THEN {<<>>}
    ELSE LET t == CHOOSE x \in ts : TRUE
         IN UNION { UNION { { (t :> s) @@ f : f \in Directories(ts \ {t}, budget - n) }
                            : s \in SourcesOfSize(n) }
                    : n \in 0..budget }

\* Every order in which the elements of S can be listed.
Orderings(S) ==
    {p \in [1..Cardinality(S) -> S] : \A i, j \in 1..Cardinality(S) : i # j => p[i] # p[j]}

\* ------------------------------------------------------------------- state
VARIABLES
    variant,              \* which program runs
    runs,                 \* calls of run() started on this visualizer
    sources,              \* data directory: tumor name -> CSV file
    glob_order,           \* order in which glob.glob lists the files
    min_correlation,      \* self.min_correlation
    max_genes_per_tumor,  \* self.max_genes_per_tumor
    pc,                   \* position of run(): start, loaded, built, crashed
    tumor_types,          \* self.tumor_types
    gene_counts,          \* self.gene_counts (function on the keys set so far)
    tumor_data,           \* dict returned by load_all_data
    errors,               \* tumor types for which logger.error was called
    all_genes,            \* network: all_genes of create_network
    gene_tumors,          \* tree: gene_tumors of create_survival_tree
    main_tumors,          \* network: main_tumor chosen for each cross-tumor gene
    nodes,                \* net.nodes of the returned Network, id -> attributes
    edges,                \* net.edges of the returned Network
    legend,               \* tumor types listed in the legend of the written page
    \* ---- the written HTML page, open in a browser
    page,                 \* which page is open: none, network, tree
    scripts,              \* the scripts of the page that the browser evaluated
    timers,               \* pending setTimeout callbacks, in firing order
    window_network,       \* the vis.js network object exists (window.network)
    network,              \* the control script holds a reference to the network
    listeners,            \* times the click listeners of the buttons were added
    isPhysicsEnabled,     \* network page: let isPhysicsEnabled
    physics,              \* the network's physics option is enabled
    simulating,           \* the physics simulation is running
    node_fixed,           \* node id -> the node is fixed in x and y
    position,             \* node id -> where the node is drawn
    savedPositions,       \* network page: let savedPositions
    initialPositions,     \* history: savedPositions as first saved at initialisation
    status,               \* text and class of the status indicator
    positionsFixed,       \* tree page: let positionsFixed
    nodePositions,        \* tree page: let nodePositions
    clicks,               \* tree page: button clicks handled so far
    last_event            \* the handler that ran last

run_vars == <<variant, runs, sources, glob_order, min_correlation, max_genes_per_tumor,
              pc, tumor_types, gene_counts, tumor_data, errors, all_genes, gene_tumors,
              main_tumors, nodes, edges, legend>>
page_vars == <<page, scripts, timers, window_network, network, listeners, isPhysicsEnabled,
               physics, simulating, node_fixed, position, savedPositions, initialPositions,
               status, positionsFixed, nodePositions, clicks, last_event>>
vars == <<run_vars, page_vars>>

\* No page is open while the Python program runs.
PageClosed ==
    /\ page = "none"
    /\ scripts = {}
    /\ timers = <<>>
    /\ window_network = FALSE
    /\ network = FALSE
    /\ listeners = 0
    /\ isPhysicsEnabled = FALSE
    /\ physics = FALSE
    /\ simulating = FALSE
    /\ node_fixed = <<>>
    /\ position = <<>>
    /\ savedPositions = <<>>
    /\ initialPositions = <<>>
    /\ status = [text |-> "", class |-> ""]
    /\ positionsFixed = FALSE
    /\ nodePositions = <<>>
    /\ clicks = 0
    /\ last_event = "none"

\* ------------------------------------------------------------------ loader
\* discover_tumor_types: one name per *.csv file, in glob order.
discover_tumor_types(order) == order

\* Mutant: the surviving rows come back last row first.
ApplyThresholdReversed(rows, min) ==
    LET kept == SelectSeq(rows, LAMBDA r : r.pcc >= min)
    IN [i \in 1..Len(kept) |-> kept[Len(kept) + 1 - i]]
\* Mutant: a row whose score equals the threshold is dropped.
ApplyThresholdStrict(rows, min) == SelectSeq(rows, LAMBDA r : r.pcc > min)
\* df[df['PCC'] >= self.min_correlation]
ApplyThreshold(rows, min) == SelectSeq(rows, LAMBDA r : r.pcc >= min)

\* Mutant: an error in one category discards what was loaded so far.
LoadOneAbort(acc, files, t, min) ==
    LET src == files[t] IN
    IF src.kind \in {"unreadable", "no_pcc"}
    THEN [all_data |-> <<>>, gene_counts |-> acc.gene_counts,
          errors |-> Append(acc.errors, t)]
    ELSE [all_data |-> DictSet(acc.all_data, t,
                               [has_gene |-> src.kind = "ok",
                                rows |-> ApplyThreshold(src.rows, min)]),
          gene_counts |-> (t :> 0) @@ acc.gene_counts,
          errors |-> acc.errors]

\* One iteration of the loop of load_all_data (the try/except body).
LoadOne(acc, files, t, min) ==
    LET src == files[t] IN
    IF src.kind = "unreadable"
    THEN \* pd.read_csv raises
         [acc EXCEPT !.errors = Append(@, t)]
    ELSE IF src.kind = "no_pcc"
    THEN \* gene_counts[t] = 0 runs, then df['PCC'] raises KeyError
         [acc EXCEPT !.gene_counts = (t :> 0) @@ @, !.errors = Append(@, t)]
    ELSE [all_data |-> DictSet(acc.all_data, t,
                               [has_gene |-> src.kind = "ok",
                                rows |-> ApplyThreshold(src.rows, min)]),
          gene_counts |-> (t :> 0) @@ acc.gene_counts,
          errors |-> acc.errors]

RECURSIVE LoadLoop(_, _, _, _, _)
LoadLoop(acc, files, types, i, min) ==
    IF i > Len(types) THEN acc
    ELSE LoadLoop(LoadOne(acc, files, types[i], min), files, types, i + 1, min)

\* load_all_data: the returned dict, gene_counts and the logged errors.
load_all_data(files, types, counts, errs, min) ==
    LoadLoop([all_data |-> <<>>, gene_counts |-> counts, errors |-> errs],
             files, types, 1, min)

\* ---------------------------------------------------------- pandas helpers
RECURSIVE InsertDesc(_, _)
\* Insert row r into the descending sequence s after every row with pcc >= r.pcc.
InsertDesc(s, r) ==
    IF s = <<>> THEN <<r>>
    ELSE IF Head(s).pcc >= r.pcc THEN <<Head(s)>> \o InsertDesc(Tail(s), r)
    ELSE <<r>> \o s

RECURSIVE SortDescFrom(_, _, _)
SortDescFrom(acc, rows, i) ==
    IF i > Len(rows) THEN acc ELSE SortDescFrom(InsertDesc(acc, rows[i]), rows, i + 1)

\* df.sort_values('PCC', ascending=False): descending, equal scores in table order.
sort_values_desc(rows) == SortDescFrom(<<>>, rows, 1)

\* df.nlargest(n, 'PCC'): the first n rows of the descending order.
nlargest(rows, n) ==
    LET s == sort_values_desc(rows)
    IN SubSeq(s, 1, IF n < Len(s) THEN n ELSE Len(s))

\* ------------------------------------------------------------ pyvis Network
EmptyNet == [nodes |-> <<>>, edges |-> <<>>, exception |-> ""]

\* Network.add_node: a node whose id is already present is left as it is.
add_node(net, id, attrs) ==
    IF DictHas(net.nodes, id) THEN net
    ELSE [net EXCEPT !.nodes = Append(@, [key |-> id, val |-> attrs])]

\* Network.add_edge: both ends must be nodes of the network, or the call
\* fails its assertion and adds nothing; an undirected network keeps one edge
\* per pair of nodes, a directed one appends every edge.
add_edge(net, directed, from, to, width) ==
    IF ~DictHas(net.nodes, from) \/ ~DictHas(net.nodes, to)
    THEN [nodes |-> net.nodes, edges |-> net.edges, exception |-> "AssertionError"]
    ELSE
    IF ~directed /\ \E i \in 1..Len(net.edges) :
                       \/ net.edges[i].from = from /\ net.edges[i].to = to
                       \/ net.edges[i].from = to /\ net.edges[i].to = from
    THEN net
    ELSE [net EXCEPT !.edges = Append(@, [from |-> from, to |-> to, width |-> width])]

\* Node ids are tuples of strings: <<name>> for the central node, a tumor node
\* and a gene node of the network, <<gene, tumor>> for the tree's f"{gene}_{tumor}".
Id1(name) == <<name>>
Id2(gene, tumor) == <<gene, tumor>>

\* The attributes of a node that the model keeps: which loop added it (kind),
\* shape, size, fixed, the PCC and risk level of its tooltip, and how many
\* 'Cross-tumor gene' remarks the tooltip holds.
NodeAttrs(kind, shape, size, fixed, pcc, risk, cross) ==
    [kind |-> kind, shape |-> shape, size |-> size, fixed |-> fixed,
     pcc |-> pcc, risk |-> risk, cross_notes |-> cross]

\* The central node, added right after the Network is created.
NetWithCentral(v) ==
    add_node(EmptyNet, Id1(central_id(v)),
             NodeAttrs("central", IF v = "network" THEN "dot" ELSE "ellipse",
                       RatInt(central_node_size(v)), TRUE, 0, "", 0))

\* ----------------------------------------------------------- visual mapping
\* Mutant: the threshold is not subtracted from the score.
GeneNodeSizeNoOffset(v, pcc, min) ==
    LET r == node_size_range(v)
    IN Rat(r[1] * (max_correlation - min) + pcc * (r[2] - r[1]), max_correlation - min)

\* size_min + (pcc - min_correlation) * (size_max - size_min) / (1 - min_correlation)
GeneNodeSize(v, pcc, min) ==
    LET r == node_size_range(v)
    IN Rat(r[1] * (max_correlation - min) + (pcc - min) * (r[2] - r[1]),
           max_correlation - min)

\* Edge width.  network: width_min + (pcc - min_correlation) * (width_max - width_min);
\* tree: width_min + size_scale * (width_max - width_min).
GeneEdgeWidth(v, pcc, min) ==
    LET r == edge_width_range10(v)
    IN IF v = "network"
       THEN Rat(r[1] * 100 + (pcc - min) * (r[2] - r[1]), 1000)
       ELSE Rat(r[1] * (max_correlation - min) + (pcc - min) * (r[2] - r[1]),
                10 * (max_correlation - min))

\* ------------------------------------------- create_network (GCH1 network)
\* Mutant: a gene already collected from an earlier row is not written again.
CollectRowSkipSeen(ag, tumor, row) ==
    IF DictHas(ag, row.gene) THEN ag
    ELSE DictSet(ag, row.gene, DictSet(<<>>, tumor, row.pcc))

\* Mutant: the inner dict is created anew for every row.
CollectRowReset(ag, tumor, row) ==
    DictSet(ag, row.gene, DictSet(<<>>, tumor, row.pcc))

\* Mutant: a (gene, tumor) pair that is already present keeps its first score.
CollectRowKeepFirst(ag, tumor, row) ==
    LET inner == IF DictHas(ag, row.gene) THEN DictGet(ag, row.gene) ELSE <<>>
    IN IF DictHas(inner, tumor) THEN ag
       ELSE DictSet(ag, row.gene, DictSet(inner, tumor, row.pcc))

\* Step 1, one row: all_genes[gene_id][tumor_type] = pcc
CollectRow(ag, tumor, row) ==
    LET inner == IF DictHas(ag, row.gene) THEN DictGet(ag, row.gene) ELSE <<>>
    IN DictSet(ag, row.gene, DictSet(inner, tumor, row.pcc))

RECURSIVE CollectRows(_, _, _, _)
CollectRows(ag, tumor, rows, i) ==
    IF i > Len(rows) THEN ag
    ELSE CollectRows(CollectRow(ag, tumor, rows[i]), tumor, rows, i + 1)

RECURSIVE CollectTables(_, _, _)
CollectTables(ag, data, k) ==
    IF k > Len(data) THEN ag
    ELSE CollectTables(CollectRows(ag, data[k].key, data[k].val.rows, 1), data, k + 1)

\* Step 1: for tumor_type, df in tumor_data.items(): for _, row in df.iterrows()
CollectAllGenes(data) == CollectTables(<<>>, data, 1)

\* row['Gene Symbol'] raises KeyError on the first row of a table without the column.
CollectRaises(data) ==
    \E k \in 1..Len(data) : ~data[k].val.has_gene /\ data[k].val.rows # <<>>

\* cross_tumor_genes = {gene: tumors for gene, tumors in all_genes.items() if len(tumors) > 1}
cross_tumor_genes(ag) == SelectSeq(ag, LAMBDA e : Len(e.val) > 1)

Incr(counts, t) == [counts EXCEPT ![t] = @ + 1]

RECURSIVE AddTumorNodesSkipEmpty(_, _, _, _)
\* Mutant: a table left empty by the filter gets no tumor node and no edge.
AddTumorNodesSkipEmpty(st, types, data, i) ==
    IF i > Len(types) THEN st
    ELSE IF ~DictHas(data, types[i]) \/ DictGet(data, types[i]).rows = <<>>
    THEN AddTumorNodesSkipEmpty(st, types, data, i + 1)
    ELSE LET t == types[i]
             n1 == add_node(st.net, Id1(t),
                            NodeAttrs("tumor", "dot", RatInt(tumor_node_size("network")),
                                      TRUE, 0, "", 0))
             n2 == add_edge(n1, FALSE, Id1("GCH1"), Id1(t), RatInt(2))
         IN AddTumorNodesSkipEmpty([st EXCEPT !.net = n2,
                                              !.gene_counts = (t :> 0) @@ @],
                                   types, data, i + 1)

RECURSIVE AddTumorNodes(_, _, _, _)
\* for idx, tumor_type in enumerate(self.tumor_types): tumor node, edge to GCH1,
\* self.gene_counts[tumor_type] = 0
AddTumorNodes(st, types, data, i) ==
    IF i > Len(types) THEN st
    ELSE IF ~DictHas(data, types[i]) THEN AddTumorNodes(st, types, data, i + 1)
    ELSE LET t == types[i]
             n1 == add_node(st.net, Id1(t),
                            NodeAttrs("tumor", "dot", RatInt(tumor_node_size("network")),
                                      TRUE, 0, "", 0))
             n2 == add_edge(n1, FALSE, Id1("GCH1"), Id1(t), RatInt(2))
         IN AddTumorNodes([st EXCEPT !.net = n2,
                                     !.gene_counts = (t :> 0) @@ @],
                          types, data, i + 1)

\* tumor_specific_genes: the rows whose gene has exactly one tumor in all_genes
TumorSpecificRows(rows, ag) ==
    SelectSeq(rows, LAMBDA r : DictHas(ag, r.gene) /\ Len(DictGet(ag, r.gene)) = 1)

\* One tumor-specific row: gene node, edge to the tumor, gene_counts += 1.
\* The size divides by (1 - self.min_correlation): ZeroDivisionError when it is 1.
AddSpecificGene(st, tumor, row, min) ==
    IF min = max_correlation THEN [st EXCEPT !.raised = TRUE] ELSE
    LET n1 == add_node(st.net, Id1(row.gene),
                       NodeAttrs("gene", "dot", GeneNodeSize("network", row.pcc, min),
                                 FALSE, row.pcc, "", 0))
        n2 == add_edge(n1, FALSE, Id1(tumor), Id1(row.gene),
                       GeneEdgeWidth("network", row.pcc, min))
    IN [st EXCEPT !.net = n2, !.gene_counts = Incr(@, tumor)]

RECURSIVE AddSpecificRows(_, _, _, _, _)
AddSpecificRows(st, tumor, rows, i, min) ==
    IF i > Len(rows) \/ st.raised THEN st
    ELSE AddSpecificRows(AddSpecificGene(st, tumor, rows[i], min), tumor, rows, i + 1, min)

RECURSIVE AddSpecificTumors(_, _, _, _, _, _)
\* for tumor_type in self.tumor_types: the tumor-specific genes, highest PCC first.
\* tumor_specific_genes['Gene Symbol'] raises KeyError on a table without the column.
AddSpecificTumors(st, types, data, ag, i, min) ==
    IF i > Len(types) \/ st.raised THEN st
    ELSE IF ~DictHas(data, types[i]) THEN AddSpecificTumors(st, types, data, ag, i + 1, min)
    ELSE LET df == DictGet(data, types[i]) IN
         IF ~df.has_gene THEN [st EXCEPT !.raised = TRUE]
         ELSE AddSpecificTumors(
                  AddSpecificRows(st, types[i],
                                  sort_values_desc(TumorSpecificRows(df.rows, ag)), 1, min),
                  types, data, ag, i + 1, min)

RECURSIVE MaxScanLast(_, _, _)
MaxScanLast(tp, i, best) ==
    IF i > Len(tp) THEN best
    ELSE MaxScanLast(tp, i + 1, IF tp[i].val >= tp[best].val THEN i ELSE best)

\* Mutant: among equal scores the last one wins.
MainTumorLast(tumor_pccs) == tumor_pccs[MaxScanLast(tumor_pccs, 2, 1)].key

RECURSIVE MaxScan(_, _, _)
\* max(): a later item replaces the best one only when it is strictly greater.
MaxScan(tp, i, best) ==
    IF i > Len(tp) THEN best
    ELSE MaxScan(tp, i + 1, IF tp[i].val > tp[best].val THEN i ELSE best)

\* main_tumor = max(tumor_pccs.items(), key=lambda x: x[1])[0]
MainTumor(tumor_pccs) == tumor_pccs[MaxScan(tumor_pccs, 2, 1)].key

RECURSIVE AddCrossEdges(_, _, _, _, _)
\* for tumor_type, pcc in tumor_pccs.items(): if pcc >= min_correlation: edge, count
AddCrossEdges(st, gene, tp, i, min) ==
    IF i > Len(tp) THEN st
    ELSE IF tp[i].val >= min
    THEN AddCrossEdges(
             [st EXCEPT !.net = add_edge(@, FALSE, Id1(tp[i].key), Id1(gene),
                                         GeneEdgeWidth("network", tp[i].val, min)),
                        !.gene_counts = Incr(@, tp[i].key)],
             gene, tp, i + 1, min)
    ELSE AddCrossEdges(st, gene, tp, i + 1, min)

\* One cross-tumor gene: its single diamond node and one edge per tumor.
AddCrossGene(st, gene, tp, min) ==
    LET main == MainTumor(tp)
        main_pcc == DictGet(tp, main)
        st1 == [st EXCEPT !.main_tumors = DictSet(@, gene, main)]
    IN IF main_pcc < min THEN st1
       ELSE IF min = max_correlation THEN [st1 EXCEPT !.raised = TRUE]
       ELSE AddCrossEdges(
                [st1 EXCEPT !.net =
                    add_node(@, Id1(gene),
                             NodeAttrs("gene", "diamond",
                                       RatAdd(GeneNodeSize("network", main_pcc, min),
                                              cross_enlarge_network),
                                       FALSE, main_pcc, "", 1))],
                gene, tp, 1, min)

RECURSIVE AddCrossGenes(_, _, _, _)
AddCrossGenes(st, cross, i, min) ==
    IF i > Len(cross) \/ st.raised THEN st
    ELSE AddCrossGenes(AddCrossGene(st, cross[i].key, cross[i].val, min), cross, i + 1, min)

\* create_network: the network built from tumor_data, or raised = TRUE when an
\* exception leaves the method; gene_counts holds self.gene_counts at that point.
create_network(data, types, counts, min) ==
    LET st0 == [net |-> NetWithCentral("network"), gene_counts |-> counts,
                main_tumors |-> <<>>, raised |-> FALSE, all_genes |-> <<>>]
    IN IF CollectRaises(data) THEN [st0 EXCEPT !.raised = TRUE]
       ELSE LET ag == CollectAllGenes(data)
                st1 == AddTumorNodes([st0 EXCEPT !.all_genes = ag], types, data, 1)
                st2 == AddSpecificTumors(st1, types, data, ag, 1, min)
            IN IF st2.raised THEN st2
               ELSE AddCrossGenes(st2, cross_tumor_genes(ag), 1, min)

\* ------------------------------ create_survival_tree (poor prognosis tree)
\* Mutant: the thresholds are exclusive.
RiskLevelStrict(pcc) ==
    IF pcc > 75 THEN "High Risk" ELSE IF pcc > 65 THEN "Moderate Risk" ELSE "Low Risk"

\* Risk level of a gene by its correlation.
RiskLevel(pcc) ==
    IF pcc >= 75 THEN "High Risk" ELSE IF pcc >= 65 THEN "Moderate Risk" ELSE "Low Risk"

\* gene_tumors[gene_symbol].append(tumor_type)
TrackGene(gt, gene, tumor) ==
    DictSet(gt, gene, Append(IF DictHas(gt, gene) THEN DictGet(gt, gene) ELSE <<>>, tumor))

\* One row of top_genes: track the gene, add its node and the edge from the tumor.
\* size_scale divides by (1 - self.min_correlation): ZeroDivisionError when it is 1.
AddTreeGene(st, tumor, row, min) ==
    IF min = max_correlation
    THEN [st EXCEPT !.gene_tumors = TrackGene(@, row.gene, tumor), !.raised = TRUE] ELSE
    LET id == Id2(row.gene, tumor)
        n1 == add_node(st.net, id,
                       NodeAttrs("gene", "dot", GeneNodeSize("tree", row.pcc, min),
                                 FALSE, row.pcc, RiskLevel(row.pcc), 0))
        n2 == add_edge(n1, TRUE, Id1(tumor), id, GeneEdgeWidth("tree", row.pcc, min))
    IN [st EXCEPT !.net = n2, !.gene_tumors = TrackGene(@, row.gene, tumor)]

RECURSIVE AddTreeRows(_, _, _, _, _)
AddTreeRows(st, tumor, rows, i, min) ==
    IF i > Len(rows) \/ st.raised THEN st
    ELSE AddTreeRows(AddTreeGene(st, tumor, rows[i], min), tumor, rows, i + 1, min)

\* top_genes = df.nlargest(self.max_genes_per_tumor, 'PCC')
TopGenes(rows, cap) == nlargest(rows, cap)

RECURSIVE AddTreeTumors(_, _, _, _, _)
\* for idx, (tumor_type, df) in enumerate(tumor_data.items()): an empty table is
\* skipped; gene_row['Gene Symbol'] raises KeyError on a table without the column.
AddTreeTumors(st, data, k, cap, min) ==
    IF k > Len(data) \/ st.raised THEN st
    ELSE LET t == data[k].key
             df == data[k].val
         IN IF df.rows = <<>> THEN AddTreeTumors(st, data, k + 1, cap, min)
            ELSE LET n1 == add_node(st.net, Id1(t),
                                    NodeAttrs("tumor", "box", RatInt(tumor_node_size("tree")),
                                              TRUE, 0, "", 0))
                     n2 == add_edge(n1, TRUE, Id1("Poor Prognosis"), Id1(t), RatInt(3))
                     top == TopGenes(df.rows, cap)
                     st1 == [st EXCEPT !.net = n2,
                                       !.gene_counts = (t :> Len(top)) @@ @]
                 IN IF ~df.has_gene THEN [st1 EXCEPT !.raised = TRUE]
                    ELSE AddTreeTumors(AddTreeRows(st1, t, top, 1, min),
                                       data, k + 1, cap, min)

\* net.get_node(gene_id): shape = "diamond", size *= 1.5, tooltip remark appended.
MarkCrossNode(net, id) ==
    LET i == DictIdx(net.nodes, id)
    IN [net EXCEPT !.nodes[i].val.shape = "diamond",
                   !.nodes[i].val.size = Rat(@.num * 3, @.den * 2),
                   !.nodes[i].val.cross_notes = @ + 1]

RECURSIVE MarkCrossInstances(_, _, _, _)
\* for tumor_type in tumors
MarkCrossInstances(net, gene, tumors, i) ==
    IF i > Len(tumors) THEN net
    ELSE MarkCrossInstances(MarkCrossNode(net, Id2(gene, tumors[i])), gene, tumors, i + 1)

RECURSIVE MarkCrossGenes(_, _, _)
\* for gene, tumors in gene_tumors.items(): if len(tumors) > 1
MarkCrossGenes(net, gt, i) ==
    IF i > Len(gt) THEN net
    ELSE MarkCrossGenes(IF Len(gt[i].val) > 1
                        THEN MarkCrossInstances(net, gt[i].key, gt[i].val, 1)
                        ELSE net,
                        gt, i + 1)

\* create_survival_tree: the network built from tumor_data, or raised = TRUE when
\* an exception leaves the method; gene_counts holds self.gene_counts at that point.
create_survival_tree(data, counts, cap, min) ==
    LET st0 == [net |-> NetWithCentral("tree"), gene_counts |-> counts,
                gene_tumors |-> <<>>, raised |-> FALSE]
        st1 == AddTreeTumors(st0, data, 1, cap, min)
    IN IF st1.raised THEN st1
       ELSE [st1 EXCEPT !.net = MarkCrossGenes(@, st1.gene_tumors, 1)]

\* ------------------------------------------------------------ the run steps
Init ==
    /\ variant \in Variants
    /\ runs = 1
    /\ sources \in Directories(TumorNames, MaxDirectorySize)
    /\ glob_order \in Orderings(TumorNames)
    /\ min_correlation \in MinCorrelations
    /\ max_genes_per_tumor \in Caps
    /\ pc = "start"
    /\ tumor_types = <<>>
    /\ gene_counts = <<>>
    /\ tumor_data = <<>>
    /\ errors = <<>>
    /\ all_genes = <<>>
    /\ gene_tumors = <<>>
    /\ main_tumors = <<>>
    /\ nodes = <<>>
    /\ edges = <<>>
    /\ legend = <<>>
    /\ PageClosed

\* run(): tumor_data = self.load_all_data(data_dir)
LoadAllData ==
    /\ pc = "start"
    /\ LET types == discover_tumor_types(glob_order)
           r == load_all_data(sources, types, gene_counts, errors, min_correlation)
       IN /\ tumor_types' = types
          /\ tumor_data' = r.all_data
          /\ gene_counts' = r.gene_counts
          /\ errors' = r.errors
    /\ pc' = "loaded"
    /\ UNCHANGED <<variant, runs, sources, glob_order, min_correlation, max_genes_per_tumor,
                   all_genes, gene_tumors, main_tumors, nodes, edges>>
    /\ UNCHANGED <<legend, page_vars>>

\* run(): net = self.create_network(tumor_data)
CreateNetwork ==
    /\ pc = "loaded"
    /\ variant = "network"
    /\ LET r == create_network(tumor_data, tumor_types, gene_counts, min_correlation)
       IN /\ gene_counts' = r.gene_counts
          /\ IF r.raised
             THEN /\ pc' = "crashed"
                  /\ UNCHANGED <<all_genes, main_tumors, nodes, edges>>
             ELSE /\ pc' = "built"
                  /\ all_genes' = r.all_genes
                  /\ main_tumors' = r.main_tumors
                  /\ nodes' = r.net.nodes
                  /\ edges' = r.net.edges
    /\ UNCHANGED <<variant, runs, sources, glob_order, min_correlation, max_genes_per_tumor,
                   tumor_types, tumor_data, errors, gene_tumors>>
    /\ UNCHANGED <<legend, page_vars>>

\* run(): net = self.create_survival_tree(tumor_data)
CreateSurvivalTree ==
    /\ pc = "loaded"
    /\ variant = "tree"
    /\ LET r == create_survival_tree(tumor_data, gene_counts, max_genes_per_tumor,
                                     min_correlation)
       IN /\ gene_counts' = r.gene_counts
          /\ IF r.raised
             THEN /\ pc' = "crashed"
                  /\ UNCHANGED <<gene_tumors, nodes, edges>>
             ELSE /\ pc' = "built"
                  /\ gene_tumors' = r.gene_tumors
                  /\ nodes' = r.net.nodes
                  /\ edges' = r.net.edges
    /\ UNCHANGED <<variant, runs, sources, glob_order, min_correlation, max_genes_per_tumor,
                   tumor_types, tumor_data, errors, all_genes, main_tumors>>
    /\ UNCHANGED <<legend, page_vars>>

\* run(): create_html_with_title_and_legend writes the page (the network's legend
\* lists self.tumor_types, the tree's legend lists no tumor), the summary is
\* logged from self.gene_counts and self.tumor_types; run() returns.
FinishRun ==
    /\ pc = "built"
    /\ pc' = "done"
    /\ legend' = (IF variant = "network" THEN tumor_types ELSE <<>>)
    /\ UNCHANGED page_vars
    /\ UNCHANGED <<variant, runs, sources, glob_order, min_correlation, max_genes_per_tumor,
                   tumor_types, gene_counts, tumor_data, errors, all_genes, gene_tumors,
                   main_tumors, nodes, edges>>

Next == LoadAllData \/ CreateNetwork \/ CreateSurvivalTree \/ FinishRun

Spec == Init /\ [][Next]_vars

\* ------------------------------------- other thresholds and scores (SpecRange)
\* The same run over tables whose scores sit on the risk thresholds, on both
\* ends of the correlation range and above it, under the lowest, the default
\* and the highest min_correlation.
MaxRangeSize == 2
RangeGenes == {"g1"}
RangeScores == {-100, 64, 65, 74, 75, 100, 120}
RangeMinCorrelations == {-100, default_min_correlation, max_correlation}
RangeRows == {Row(g, s) : g \in RangeGenes, s \in RangeScores}

RECURSIVE RangeDirectories(_, _)
\* Every assignment of a readable two-column file over RangeRows to each tumor
\* of ts, of at most budget rows in total.
RangeDirectories(ts, budget) ==
    IF ts = {} THEN {<<>>}
    ELSE LET t == CHOOSE x \in ts : TRUE
         IN UNION { UNION { { (t :> [kind |-> "ok", rows |-> r]) @@ f
                              : f \in RangeDirectories(ts \ {t}, budget - n) }
                            : r \in SeqsOfLen(RangeRows, n) }
                    : n \in 0..budget }

\* The visualizer right after __init__, before the first run().
Constructed ==
    /\ runs = 1
    /\ pc = "start"
    /\ tumor_types = <<>>
    /\ gene_counts = <<>>
    /\ tumor_data = <<>>
    /\ errors = <<>>
    /\ all_genes = <<>>
    /\ gene_tumors = <<>>
    /\ main_tumors = <<>>
    /\ nodes = <<>>
    /\ edges = <<>>
    /\ legend = <<>>
    /\ PageClosed

InitRange ==
    /\ variant \in Variants
    /\ sources \in RangeDirectories(TumorNames, MaxRangeSize)
    /\ glob_order \in Orderings(TumorNames)
    /\ min_correlation \in RangeMinCorrelations
    /\ max_genes_per_tumor = default_max_genes_per_tumor
    /\ Constructed

SpecRange == InitRange /\ [][Next]_vars

\* ------------------------------- the same visualizer used again (SpecRerun)
\* run() called again on the same object with another data directory, and
\* create_network / create_survival_tree called again on the same tumor_data.
MaxRuns == 2
RerunTables == {<<>>, <<Row("g1", 90)>>, <<Row("g1", 90), Row("g2", 50)>>}

\* The data directories of the reruns: at least one CSV file, every file
\* readable with both columns.
RerunDirectories ==
    UNION {[ts -> {[kind |-> "ok", rows |-> r] : r \in RerunTables}]
           : ts \in (SUBSET TumorNames) \ {{}}}

InitRerun ==
    /\ variant \in Variants
    /\ sources \in RerunDirectories
    /\ glob_order \in Orderings(DOMAIN sources)
    /\ min_correlation = default_min_correlation
    /\ max_genes_per_tumor = default_max_genes_per_tumor
    /\ Constructed

\* The caller invokes run(data_dir) again on the same visualizer: the previous
\* call's locals are gone, self.tumor_types and self.gene_counts are as the
\* previous call left them.
RunAgain ==
    /\ pc = "done"
    /\ runs < MaxRuns
    /\ runs' = runs + 1
    /\ sources' \in RerunDirectories
    /\ glob_order' \in Orderings(DOMAIN sources')
    /\ pc' = "start"
    /\ UNCHANGED <<variant, min_correlation, max_genes_per_tumor, tumor_types,
                   gene_counts, tumor_data, errors, all_genes, gene_tumors,
                   main_tumors, nodes, edges>>
    /\ UNCHANGED <<legend, page_vars>>

\* The aggregation pass is run a second time on the same filtered tables.
AggregateAgain ==
    /\ pc = "built"
    /\ \/ /\ variant = "network"
          /\ LET r == create_network(tumor_data, tumor_types, gene_counts,
                                     min_correlation)
             IN /\ gene_counts' = r.gene_counts
                /\ all_genes' = r.all_genes
                /\ main_tumors' = r.main_tumors
                /\ nodes' = r.net.nodes
                /\ edges' = r.net.edges
          /\ UNCHANGED gene_tumors
       \/ /\ variant = "tree"
          /\ LET r == create_survival_tree(tumor_data, gene_counts,
                                           max_genes_per_tumor, min_correlation)
             IN /\ gene_counts' = r.gene_counts
                /\ gene_tumors' = r.gene_tumors
                /\ nodes' = r.net.nodes
                /\ edges' = r.net.edges
          /\ UNCHANGED <<all_genes, main_tumors>>
    /\ pc' = "rebuilt"
    /\ UNCHANGED <<variant, runs, sources, glob_order, min_correlation,
                   max_genes_per_tumor, tumor_types, tumor_data, errors>>
    /\ UNCHANGED <<legend, page_vars>>

NextRerun == Next \/ RunAgain \/ AggregateAgain

SpecRerun == InitRerun /\ [][NextRerun]_vars

\* ------------------------ tables that name the central gene itself (SpecSelf)
\* The tables list the genes correlated with GCH1; a table may hold a row for
\* GCH1 itself, whose symbol is also the id of the network's central node.
SelfTables == {<<>>, <<Row("g1", 90)>>, <<Row("GCH1", 100)>>,
               <<Row("g1", 90), Row("GCH1", 100)>>}

InitSelf ==
    /\ variant \in Variants
    /\ sources \in [TumorNames -> {[kind |-> "ok", rows |-> r] : r \in SelfTables}]
    /\ glob_order \in Orderings(TumorNames)
    /\ min_correlation = default_min_correlation
    /\ max_genes_per_tumor = default_max_genes_per_tumor
    /\ Constructed

SpecSelf == InitSelf /\ [][Next]_vars

\* ------------------------------------------------- the pages in the browser
\* The directories the pages are written from: two category files, of which
\* BRCA.csv has a name without 'Tumor', each with one or two genes above the
\* threshold.  glob.glob lists them in either order.
PageTypes == {"ACC Tumor", "BRCA"}
PageTables == {<<Row("g1", 90)>>, <<Row("g1", 90), Row("g2", 80)>>}
PageDirectories ==
    [PageTypes -> {[kind |-> "ok", rows |-> r] : r \in PageTables}]
\* Where a node can be drawn: where the layout put it (0) or elsewhere.
Positions == {0, 1, 2}

\* run() of variant v over the directory src, which glob.glob listed in the
\* order types, has returned.
RunDone(v, src, types) ==
    LET l == load_all_data(src, types, <<>>, <<>>, default_min_correlation)
    IN /\ variant = v
       /\ runs = 1
       /\ sources = src
       /\ glob_order = types
       /\ min_correlation = default_min_correlation
       /\ max_genes_per_tumor = default_max_genes_per_tumor
       /\ pc = "done"
       /\ tumor_types = types
       /\ tumor_data = l.all_data
       /\ errors = l.errors
       /\ IF v = "network"
          THEN LET r == create_network(l.all_data, types, l.gene_counts,
                                       default_min_correlation)
               IN /\ gene_counts = r.gene_counts
                  /\ all_genes = r.all_genes
                  /\ main_tumors = r.main_tumors
                  /\ gene_tumors = <<>>
                  /\ nodes = r.net.nodes
                  /\ edges = r.net.edges
                  /\ legend = types
          ELSE LET r == create_survival_tree(l.all_data, l.gene_counts,
                                             default_max_genes_per_tumor,
                                             default_min_correlation)
               IN /\ gene_counts = r.gene_counts
                  /\ all_genes = <<>>
                  /\ main_tumors = <<>>
                  /\ gene_tumors = r.gene_tumors
                  /\ nodes = r.net.nodes
                  /\ edges = r.net.edges
                  /\ legend = <<>>

\* The node ids of the page and the fixed flag add_node gave each node.
PageNodes == DictKeys(nodes)
\* Mutant: add_node is called without fixed for every node.
FixedAtLoadNone == [id \in PageNodes |-> FALSE]
FixedAtLoad == [id \in PageNodes |-> DictGet(nodes, id).fixed]
Timer(name, click) == [name |-> name, click |-> click]
Status(text, class) == [text |-> text, class |-> class]

\* ------------------------------------------------------ GCH1 network page
\* The names of the model that contain 'Tumor'.
WithTumor == {"ACC Tumor", "BRCA Tumor"}
\* node.id === 'GCH1' || node.id.includes('Tumor')
IsAnchor(id) == id = Id1("GCH1") \/ (\E i \in 1..Len(id) : id[i] \in WithTumor)

\* The timers pending once DOMContentLoaded was handled, for the scripts s the
\* browser evaluated: 500 ms of init_script, 1000 ms of stabilize_script,
\* 1000 ms of the control script.
TimersAtLoad(s) ==
    (IF "init_script" \in s THEN <<Timer("init_script", 0)>> ELSE <<>>)
    \o (IF "stabilize_script" \in s THEN <<Timer("stabilize_script", 0)>> ELSE <<>>)
    \o (IF "control_script" \in s THEN <<Timer("first_attempt", 0)>> ELSE <<>>)

\* stabilize_script counts its 1000 ms from the moment it is parsed, the other
\* timers from DOMContentLoaded: it is not ordered against them.
IsStabilize(t) == t.name = "stabilize_script"
NotStabilize(t) == t.name # "stabilize_script"
IsDue(name) ==
    /\ SelectSeq(timers, NotStabilize) # <<>>
    /\ Head(SelectSeq(timers, NotStabilize)).name = name
\* The queue once the timer that is due has fired.
AfterDue ==
    SelectSeq(timers, IsStabilize) \o Tail(SelectSeq(timers, NotStabilize))

\* updatePhysicsStatus(isEnabled)
updatePhysicsStatus(isEnabled) ==
    IF isEnabled THEN Status("Physics: Active, Stabilizing...", "active")
    ELSE Status("Physics: Off, Drag Nodes Freely", "frozen")

\* releaseFixedPositions: every node but GCH1 and the tumor nodes is released.
releaseFixedPositions(fx) == [id \in DOMAIN fx |-> IF IsAnchor(id) THEN fx[id] ELSE FALSE]

\* Mutant: control_script is evaluated and its first attempt has found the
\* network, saved the positions and registered the listeners.
InitNetworkPageInitialised ==
    /\ \E src \in PageDirectories, types \in Orderings(PageTypes) :
          RunDone("network", src, types)
    /\ page = "network"
    /\ scripts = {"control_script"}
    /\ timers = <<>>
    /\ window_network = TRUE
    /\ network = TRUE
    /\ listeners = 1
    /\ isPhysicsEnabled = FALSE
    /\ physics = FALSE
    /\ simulating = FALSE
    /\ node_fixed = FixedAtLoad
    /\ position = [id \in PageNodes |-> 0]
    /\ savedPositions = position
    /\ initialPositions = position
    /\ status = updatePhysicsStatus(FALSE)
    /\ positionsFixed = FALSE
    /\ nodePositions = <<>>
    /\ clicks = 0
    /\ last_event = "load"

\* The page the generator writes, once loaded.  save_graph renders the html
\* anew, so the file holds neither init_script nor stabilize_script, which
\* were appended to net.html before.  control_script is inserted into that
\* file after the script of the page template, which declares the global
\* `var network` and creates the vis.js network: the top-level
\* `let network = null` of control_script is a redeclaration, the browser
\* rejects the whole script, and none of its variables, timers or listeners
\* exists.  The network is drawn with the options of create_network (physics
\* off, dragNodes on); the status element reads 'Physics: Active'.
InitNetworkPage ==
    /\ \E src \in PageDirectories, types \in Orderings(PageTypes) :
          RunDone("network", src, types)
    /\ page = "network"
    /\ scripts = {}
    /\ timers = TimersAtLoad(scripts)
    /\ window_network = TRUE
    /\ network = FALSE
    /\ listeners = 0
    /\ isPhysicsEnabled = FALSE
    /\ physics = FALSE
    /\ simulating = FALSE
    /\ node_fixed = FixedAtLoad
    /\ position = [id \in PageNodes |-> 0]
    /\ savedPositions = <<>>
    /\ initialPositions = <<>>
    /\ status = Status("Physics: Active", "active")
    /\ positionsFixed = FALSE
    /\ nodePositions = <<>>
    /\ clicks = 0
    /\ last_event = "load"

\* ---- the callbacks of the scripts; none of them is pending in the page as
\* ---- written, and no listener of control_script is registered there.
\* init_script, 500 ms after DOMContentLoaded: if window.network exists, GCH1
\* and the tumor nodes are fixed, the gene nodes released, physics switched
\* off and the status rewritten.  Its `network` is the global of that name: in
\* a page where control_script was evaluated that is the control script's
\* `let network`, still null at 500 ms, so network.body throws and the catch
\* leaves everything as it was.
InitScript ==
    /\ page = "network"
    /\ IsDue("init_script")
    /\ timers' = AfterDue
    /\ IF window_network /\ "control_script" \notin scripts
       THEN /\ node_fixed' = [id \in DOMAIN node_fixed |-> IsAnchor(id)]
            /\ physics' = FALSE
            /\ status' = Status("Tumor Nodes Fixed - Drag Gene Nodes Freely", "frozen")
       ELSE UNCHANGED <<node_fixed, physics, status>>
    /\ last_event' = "init_script"
    /\ UNCHANGED <<run_vars, page, scripts, window_network, network, listeners, isPhysicsEnabled,
                   simulating, position, savedPositions, initialPositions,
                   positionsFixed, nodePositions, clicks>>

\* stabilize_script, 1000 ms after it was parsed: network.stabilize(100) if
\* window.network exists.  In a page where control_script was evaluated the
\* call is made on the null `let network` and throws into the catch.  Where
\* it is made, the nodes that are not fixed may move (MoveNode); no option and
\* no element of the page is changed.
StabilizeScript ==
    /\ page = "network"
    /\ \E i \in 1..Len(timers) : IsStabilize(timers[i])
    /\ timers' = SelectSeq(timers, NotStabilize)
    /\ last_event' = "stabilize_script"
    /\ UNCHANGED <<run_vars, page, scripts, window_network, network, listeners,
                   isPhysicsEnabled, physics, simulating, node_fixed, position,
                   savedPositions, initialPositions, status, positionsFixed,
                   nodePositions, clicks>>

\* The body shared by both attempts once the network object is found: the
\* datasets are taken, the positions saved, the status set to off and
\* initControlButtons adds the five click listeners.
TakeNetwork ==
    /\ network' = TRUE
    /\ savedPositions' = position
    /\ initialPositions' = (IF initialPositions = <<>> THEN position ELSE initialPositions)
    /\ status' = updatePhysicsStatus(FALSE)
    /\ listeners' = listeners + 1

\* The 1000 ms timer of the DOMContentLoaded handler: the first attempt.
FirstAttempt ==
    /\ page = "network"
    /\ IsDue("first_attempt")
    /\ last_event' = "first_attempt"
    /\ IF window_network
       THEN /\ TakeNetwork
            /\ timers' = AfterDue
       ELSE /\ timers' = Append(AfterDue, Timer("retry", 0))
            /\ UNCHANGED <<network, savedPositions, initialPositions, status, listeners>>
    /\ UNCHANGED <<run_vars, page, scripts, window_network, isPhysicsEnabled, physics, simulating,
                   node_fixed, position, positionsFixed, nodePositions, clicks>>

\* initializeNetworkAccess, 2000 ms after a failed first attempt: the retry.
RetryAttempt ==
    /\ page = "network"
    /\ IsDue("retry")
    /\ last_event' = "retry"
    /\ timers' = AfterDue
    /\ IF window_network
       THEN TakeNetwork
       ELSE /\ status' = Status("Error: Network not initialized", "error")
            /\ UNCHANGED <<network, savedPositions, initialPositions, listeners>>
    /\ UNCHANGED <<run_vars, page, scripts, window_network, isPhysicsEnabled, physics, simulating,
                   node_fixed, position, positionsFixed, nodePositions, clicks>>

\* ---- the buttons of the network page.  A click runs its handler only where
\* ---- initControlButtons has registered it (listeners > 0).
\* Click on 'Reposition Nodes': clusterNodes sets the force parameters; if
\* isPhysicsEnabled is false, physics is switched on, the status set to active
\* and the gene nodes released; then network.stabilize(100), which stops the
\* running simulation and leaves its iterations to a later task.
ClusterNodes ==
    /\ page = "network"
    /\ last_event' = "cluster"
    /\ IF listeners > 0 /\ ~isPhysicsEnabled
       THEN /\ physics' = TRUE
            /\ isPhysicsEnabled' = TRUE
            /\ status' = updatePhysicsStatus(TRUE)
            /\ node_fixed' = releaseFixedPositions(node_fixed)
       ELSE UNCHANGED <<physics, isPhysicsEnabled, status, node_fixed>>
    /\ simulating' = (IF listeners > 0 THEN FALSE ELSE simulating)
    /\ UNCHANGED <<run_vars, page, scripts, timers, window_network, network, listeners, position,
                   savedPositions, initialPositions, positionsFixed, nodePositions, clicks>>

\* Click on 'Expand Layout': expandNodes, the same with other force parameters.
ExpandNodes ==
    /\ page = "network"
    /\ last_event' = "expand"
    /\ IF listeners > 0 /\ ~isPhysicsEnabled
       THEN /\ physics' = TRUE
            /\ isPhysicsEnabled' = TRUE
            /\ status' = updatePhysicsStatus(TRUE)
            /\ node_fixed' = releaseFixedPositions(node_fixed)
       ELSE UNCHANGED <<physics, isPhysicsEnabled, status, node_fixed>>
    /\ simulating' = (IF listeners > 0 THEN FALSE ELSE simulating)
    /\ UNCHANGED <<run_vars, page, scripts, timers, window_network, network, listeners, position,
                   savedPositions, initialPositions, positionsFixed, nodePositions, clicks>>

\* Click on 'Reset & Stabilize': resetLayout puts every node of savedPositions
\* back and fixes it, switches physics off and sets the status to off.
ResetLayout ==
    /\ page = "network"
    /\ last_event' = "reset"
    /\ IF listeners > 0
       THEN /\ position' = [id \in DOMAIN position |->
                               IF id \in DOMAIN savedPositions THEN savedPositions[id]
                               ELSE position[id]]
            /\ node_fixed' = [id \in DOMAIN node_fixed |->
                                 IF id \in DOMAIN savedPositions THEN TRUE
                                 ELSE node_fixed[id]]
            /\ physics' = FALSE
            /\ simulating' = FALSE
            /\ isPhysicsEnabled' = FALSE
            /\ status' = updatePhysicsStatus(FALSE)
       ELSE UNCHANGED <<position, node_fixed, physics, simulating, isPhysicsEnabled,
                        status>>
    /\ UNCHANGED <<run_vars, page, scripts, timers, window_network, network, listeners,
                   savedPositions, initialPositions, positionsFixed, nodePositions, clicks>>

\* Click on 'Fix All Positions': freezePositions saves the current positions
\* over savedPositions, fixes every node where it is and sets the status to
\* off; physics and isPhysicsEnabled are not touched.
FreezePositions ==
    /\ page = "network"
    /\ last_event' = "freeze"
    /\ IF listeners > 0
       THEN /\ savedPositions' = position
            /\ node_fixed' = [id \in DOMAIN node_fixed |-> TRUE]
            /\ status' = updatePhysicsStatus(FALSE)
       ELSE UNCHANGED <<savedPositions, node_fixed, status>>
    /\ UNCHANGED <<run_vars, page, scripts, timers, window_network, network, listeners,
                   isPhysicsEnabled, physics, simulating, position, initialPositions,
                   positionsFixed, nodePositions, clicks>>

\* Click on 'Enable Dragging': unfreezePositions releases every node and sets
\* the status to active; physics and isPhysicsEnabled are not touched.
UnfreezePositions ==
    /\ page = "network"
    /\ last_event' = "unfreeze"
    /\ IF listeners > 0
       THEN /\ node_fixed' = [id \in DOMAIN node_fixed |-> FALSE]
            /\ status' = updatePhysicsStatus(TRUE)
       ELSE UNCHANGED <<node_fixed, status>>
    /\ UNCHANGED <<run_vars, page, scripts, timers, window_network, network, listeners,
                   isPhysicsEnabled, physics, simulating, position, savedPositions,
                   initialPositions, positionsFixed, nodePositions, clicks>>

\* A node that is not fixed is moved, by the user's drag (dragNodes is on in
\* both pages) or by the physics simulation.
MoveNode ==
    /\ page # "none"
    /\ window_network
    /\ \E id \in PageNodes :
          /\ ~node_fixed[id]
          /\ \E p \in Positions \ {position[id]} :
                position' = [position EXCEPT ![id] = p]
    /\ last_event' = "move"
    /\ UNCHANGED <<run_vars, page, scripts, timers, window_network, network, listeners,
                   isPhysicsEnabled, physics, simulating, node_fixed, savedPositions,
                   initialPositions, status, positionsFixed, nodePositions, clicks>>

NextNetworkPage ==
    \/ ClusterNodes \/ ExpandNodes \/ ResetLayout \/ FreezePositions \/ UnfreezePositions
    \/ MoveNode

SpecNetworkPage == InitNetworkPage /\ [][NextNetworkPage]_vars

\* The browser runs every timer callback that is due; the page as written
\* never has one pending.
FairNetworkPage ==
    /\ SpecNetworkPage
    /\ WF_vars(InitScript) /\ WF_vars(StabilizeScript)
    /\ WF_vars(FirstAttempt) /\ WF_vars(RetryAttempt)

\* ======================================================= the tree page
\* The page written by the poor-prognosis tree generator: its script keeps
\* positionsFixed and nodePositions; its DOMContentLoaded handler is written
\* to register the click handlers and to start one 2000 ms timer.
\* The clicks a run of the model makes on the page.
MaxClicks == 3

\* Mutant: the lookup of the network succeeds, the handler registers its
\* listeners and starts the 2000 ms timer.
InitTreePageNetworkFound ==
    /\ \E src \in PageDirectories, types \in Orderings(PageTypes) :
          RunDone("tree", src, types)
    /\ page = "tree"
    /\ scripts = {"javascript"}
    /\ window_network = TRUE
    /\ network = TRUE
    /\ timers = <<Timer("startup", 0)>>
    /\ listeners = 1
    /\ isPhysicsEnabled = FALSE
    /\ physics = TRUE
    /\ simulating = TRUE
    /\ node_fixed = FixedAtLoad
    /\ position = [id \in PageNodes |-> 0]
    /\ savedPositions = <<>>
    /\ initialPositions = <<>>
    /\ status = Status("Initializing...", "#ffc107")
    /\ positionsFixed = FALSE
    /\ nodePositions = <<>>
    /\ clicks = 0
    /\ last_event = "load"

\* The page the generator writes, after DOMContentLoaded.  The handler begins
\* with document.getElementById("mynetwork").getElementsByTagName("iframe")[0]
\* .contentWindow.network; the network is drawn into #mynetwork itself, which
\* holds no iframe, so [0] is undefined and reading .contentWindow throws a
\* TypeError: the handler ends there, before it registers a listener or starts
\* its timer.  positionsFixed and nodePositions were declared before.  The
\* network is drawn with physics on (toggle_physics(True)); the status element
\* reads 'Initializing...'.
InitTreePage ==
    /\ \E src \in PageDirectories, types \in Orderings(PageTypes) :
          RunDone("tree", src, types)
    /\ page = "tree"
    /\ scripts = {"javascript"}
    /\ window_network = TRUE
    /\ network = FALSE
    /\ timers = <<>>
    /\ listeners = 0
    /\ isPhysicsEnabled = FALSE
    /\ physics = TRUE
    /\ simulating = TRUE
    /\ node_fixed = FixedAtLoad
    /\ position = [id \in PageNodes |-> 0]
    /\ savedPositions = <<>>
    /\ initialPositions = <<>>
    /\ status = Status("Initializing...", "#ffc107")
    /\ positionsFixed = FALSE
    /\ nodePositions = <<>>
    /\ clicks = 0
    /\ last_event = "load"

\* ---- the buttons of the tree page.  A click runs its handler only where the
\* ---- DOMContentLoaded handler has registered it (listeners > 0).
\* click on cluster-button
ClickCluster ==
    /\ page = "tree"
    /\ clicks < MaxClicks
    /\ clicks' = clicks + 1
    /\ last_event' = "cluster"
    /\ IF listeners > 0
       THEN /\ status' = Status("Clustering...", "#ffc107")
            /\ physics' = TRUE
            /\ simulating' = TRUE
            /\ timers' = Append(timers, Timer("ready", clicks + 1))
       ELSE UNCHANGED <<status, physics, simulating, timers>>
    /\ UNCHANGED <<run_vars, page, scripts, window_network, network, listeners, isPhysicsEnabled,
                   node_fixed, position, savedPositions, initialPositions,
                   positionsFixed, nodePositions>>

\* click on expand-button
ClickExpand ==
    /\ page = "tree"
    /\ clicks < MaxClicks
    /\ clicks' = clicks + 1
    /\ last_event' = "expand"
    /\ IF listeners > 0
       THEN /\ status' = Status("Expanding...", "#ffc107")
            /\ physics' = TRUE
            /\ simulating' = TRUE
            /\ timers' = Append(timers, Timer("ready", clicks + 1))
       ELSE UNCHANGED <<status, physics, simulating, timers>>
    /\ UNCHANGED <<run_vars, page, scripts, window_network, network, listeners, isPhysicsEnabled,
                   node_fixed, position, savedPositions, initialPositions,
                   positionsFixed, nodePositions>>

\* click on reset-button
ClickReset ==
    /\ page = "tree"
    /\ clicks < MaxClicks
    /\ clicks' = clicks + 1
    /\ last_event' = "reset"
    /\ IF listeners > 0
       THEN /\ status' = Status("Resetting...", "#ffc107")
            /\ physics' = TRUE
            /\ position' = [position EXCEPT ![Id1("Poor Prognosis")] = 0]
            /\ simulating' = TRUE
            /\ timers' = Append(timers, Timer("ready", clicks + 1))
       ELSE UNCHANGED <<status, physics, position, simulating, timers>>
    /\ UNCHANGED <<run_vars, page, scripts, window_network, network, listeners, isPhysicsEnabled,
                   node_fixed, savedPositions, initialPositions,
                   positionsFixed, nodePositions>>

\* click on fix-positions-button: the toggle
ClickFixPositions ==
    /\ page = "tree"
    /\ clicks < MaxClicks
    /\ clicks' = clicks + 1
    /\ last_event' = "fix"
    /\ IF listeners = 0
       THEN UNCHANGED <<nodePositions, physics, simulating, positionsFixed, status>>
       ELSE IF ~positionsFixed
       THEN /\ nodePositions' = position
            /\ physics' = FALSE
            /\ simulating' = FALSE
            /\ positionsFixed' = TRUE
            /\ status' = Status("Positions Fixed", "#17a2b8")
       ELSE /\ nodePositions' = nodePositions
            /\ physics' = TRUE
            /\ simulating' = TRUE
            /\ positionsFixed' = FALSE
            /\ status' = Status("Positions Unfrozen", "#28a745")
    /\ UNCHANGED <<run_vars, page, scripts, timers, window_network, network, listeners,
                   isPhysicsEnabled, node_fixed, position, savedPositions,
                   initialPositions>>

\* click on enable-drag-button: network.setOptions({interaction: {dragNodes:
\* true}}) and the status.  Whether a setOptions call that leaves the physics
\* option alone restarts a stopped simulation is decided by vis.js: where it
\* does, the simulation runs again if physics is enabled.
ClickEnableDrag ==
    /\ page = "tree"
    /\ clicks < MaxClicks
    /\ clicks' = clicks + 1
    /\ last_event' = "drag"
    /\ IF listeners > 0
       THEN /\ simulating' \in {simulating, simulating \/ physics}
            /\ status' = Status("Dragging Enabled", "#28a745")
       ELSE UNCHANGED <<simulating, status>>
    /\ UNCHANGED <<run_vars, page, scripts, timers, window_network, network, listeners,
                   isPhysicsEnabled, physics, node_fixed, position,
                   savedPositions, initialPositions, positionsFixed, nodePositions>>

\* ---- the timers of the tree page; none of them is pending in the page as
\* ---- written.
\* The 2000 ms timer of the DOMContentLoaded handler fires.
StartupTimer ==
    /\ page = "tree"
    /\ timers # <<>>
    /\ Head(timers).name = "startup"
    /\ timers' = Tail(timers)
    /\ position' = [position EXCEPT ![Id1("Poor Prognosis")] = 0]
    /\ simulating' = FALSE
    /\ status' = Status("Ready", "#28a745")
    /\ last_event' = "startup"
    /\ UNCHANGED <<run_vars, page, scripts, window_network, network, listeners, isPhysicsEnabled,
                   physics, node_fixed, savedPositions, initialPositions,
                   positionsFixed, nodePositions, clicks>>

\* The 3000 ms timer of a click on Cluster, Expand or Reset fires.
ReadyTimer ==
    /\ page = "tree"
    /\ timers # <<>>
    /\ Head(timers).name = "ready"
    /\ timers' = Tail(timers)
    /\ simulating' = FALSE
    /\ status' = Status("Ready", "#28a745")
    /\ last_event' = "timer"
    /\ UNCHANGED <<run_vars, page, scripts, window_network, network, listeners, isPhysicsEnabled,
                   physics, node_fixed, position, savedPositions, initialPositions,
                   positionsFixed, nodePositions, clicks>>

NextTreePage ==
    \/ ClickCluster \/ ClickExpand \/ ClickReset \/ ClickFixPositions
    \/ ClickEnableDrag \/ MoveNode

SpecTreePage == InitTreePage /\ [][NextTreePage]_vars

\* ============================================================== properties
Built == pc \in {"built", "done"}
Loaded(t) == DictHas(tumor_data, t)
FilteredRows(t) == DictGet(tumor_data, t).rows
\* The rows of a loaded category that take part in the aggregation pass: the
\* tree takes the top max_genes_per_tumor rows of the filtered table.
AggregatedRows(t) ==
    IF variant = "tree" THEN nlargest(FilteredRows(t), max_genes_per_tumor)
    ELSE FilteredRows(t)
\* The scores of gene g in a table.
GeneRowScores(rows, g) == {rows[i].pcc : i \in {j \in 1..Len(rows) : rows[j].gene = g}}
AggregatedScores(t, g) == IF Loaded(t) THEN GeneRowScores(AggregatedRows(t), g) ELSE {}
\* The tumor types in whose aggregated table gene g has a row.
TumorsOfGene(g) == {t \in TumorNames : AggregatedScores(t, g) # {}}
SetMax(S) == CHOOSE x \in S : \A y \in S : y <= x
Count(rows, r) == Cardinality({i \in 1..Len(rows) : rows[i] = r})
SeqToSet(q) == {q[i] : i \in 1..Len(q)}
GeneNodes == {i \in 1..Len(nodes) : nodes[i].val.kind = "gene"}
InSizeRange(size) ==
    /\ RatLeq(RatInt(node_size_range(variant)[1]), size)
    /\ RatLeq(size, RatInt(node_size_range(variant)[2]))

\* C1: after aggregation, membership[gene][category] is defined exactly for the
\* (gene, category) pairs that have a row in that category's table, and the
\* score kept for the pair is the score of such a row; nothing else is recorded.
\* (network: all_genes; tree: gene_tumors and the node of the pair.)
C1_MembershipExact ==
    Built =>
      IF variant = "network"
      THEN /\ DictKeys(all_genes) \subseteq Genes
           /\ \A i \in 1..Len(all_genes) :
                 DictKeys(all_genes[i].val) \subseteq DictKeys(tumor_data)
           /\ \A g \in Genes, t \in TumorNames :
                 LET has == DictHas(all_genes, g) /\ DictHas(DictGet(all_genes, g), t)
                 IN /\ has <=> AggregatedScores(t, g) # {}
                    /\ has => DictGet(DictGet(all_genes, g), t) \in AggregatedScores(t, g)
      ELSE /\ DictKeys(gene_tumors) \subseteq Genes
           /\ \A i \in 1..Len(gene_tumors) :
                 SeqToSet(gene_tumors[i].val) \subseteq DictKeys(tumor_data)
           /\ \A g \in Genes, t \in TumorNames :
                 LET has == DictHas(gene_tumors, g) /\ t \in SeqToSet(DictGet(gene_tumors, g))
                 IN /\ has <=> AggregatedScores(t, g) # {}
                    /\ has <=> DictHas(nodes, Id2(g, t))
                    /\ has => DictGet(nodes, Id2(g, t)).pcc \in AggregatedScores(t, g)

\* C1 witness: a built network whose membership holds a gene with two
\* categories and another gene with one.
C1_Witness ==
    /\ pc = "built" /\ variant = "network"
    /\ \E i, j \in 1..Len(all_genes) : Len(all_genes[i].val) = 2 /\ Len(all_genes[j].val) = 1

\* The genes drawn as cross-tumor (diamond) nodes of the network.
NetworkCrossSet == {g \in Genes : DictHas(nodes, Id1(g)) /\ DictGet(nodes, Id1(g)).shape = "diamond"}
\* tumor_data with its categories listed in order p and the rows of each table
\* listed in the order q[category].
Reordered(p, q) ==
    [k \in 1..Len(tumor_data) |->
        [key |-> tumor_data[p[k]].key,
         val |-> [tumor_data[p[k]].val EXCEPT !.rows =
                     [i \in 1..Len(@) |-> @[q[p[k]][i]]]]]]
RowOrders(k) == Orderings(1..Len(tumor_data[k].val.rows))

\* C2: in the network a gene is classified cross-tumor iff its membership holds
\* more than one category, i.e. iff it has rows in more than one table, and any
\* permutation of the categories and of the rows of each table classifies alike.
C2_CrossTumorOrderIndependent ==
    (Built /\ variant = "network") =>
      /\ NetworkCrossSet = {g \in DictKeys(all_genes) : Len(DictGet(all_genes, g)) > 1}
      /\ NetworkCrossSet = {g \in Genes : Cardinality(TumorsOfGene(g)) > 1}
      /\ \A p \in Orderings(1..Len(tumor_data)) :
           \A q \in [1..Len(tumor_data) -> UNION {RowOrders(k) : k \in 1..Len(tumor_data)}] :
              (\A k \in 1..Len(tumor_data) : q[k] \in RowOrders(k)) =>
                 DictKeys(cross_tumor_genes(CollectAllGenes(Reordered(p, q)))) = NetworkCrossSet

\* C2 witness: a built network with a cross-tumor gene and a tumor-specific gene.
C2_Witness ==
    /\ pc = "built" /\ variant = "network"
    /\ NetworkCrossSet # {}
    /\ \E g \in Genes : DictHas(nodes, Id1(g)) /\ DictGet(nodes, Id1(g)).shape = "dot"

\* C3 (as claimed): in the tree the node of a gene in a tumor is marked cross-tumor
\* (diamond, 'Cross-tumor gene' remark) iff the gene has a qualifying row in more
\* than one distinct tumor type; a gene of a single tumor type stays a dot.
C3_TreeCrossIffDistinctTumors ==
    (Built /\ variant = "tree") =>
      \A i \in GeneNodes :
         LET g == nodes[i].key[1]
             marked == nodes[i].val.shape = "diamond" /\ nodes[i].val.cross_notes > 0
         IN /\ marked <=> Cardinality(TumorsOfGene(g)) > 1
            /\ ~marked => nodes[i].val.shape = "dot" /\ nodes[i].val.cross_notes = 0

\* C4: for every loaded category the loader returns exactly the source rows whose
\* PCC is >= min_correlation: no returned row is below it, none at or above it is lost.
C4_ThresholdExact ==
    pc # "start" =>
      \A t \in DictKeys(tumor_data) :
         /\ \A i \in 1..Len(FilteredRows(t)) : FilteredRows(t)[i].pcc >= min_correlation
         /\ \A r \in SeqToSet(sources[t].rows) \cup SeqToSet(FilteredRows(t)) :
               Count(FilteredRows(t), r) =
                  (IF r.pcc >= min_correlation THEN Count(sources[t].rows, r) ELSE 0)

\* C4 witness: a loaded table whose source has a row at the threshold and a row below it.
C4_Witness ==
    /\ pc = "loaded"
    /\ \E t \in DictKeys(tumor_data) :
          /\ \E i \in 1..Len(sources[t].rows) : sources[t].rows[i].pcc = min_correlation
          /\ \E i \in 1..Len(sources[t].rows) : sources[t].rows[i].pcc < min_correlation
          /\ Len(FilteredRows(t)) < Len(sources[t].rows)

FailingKinds == {"unreadable", "no_pcc"}

\* C5: a category whose source cannot be read is reported and left out of the
\* returned mapping, and every readable category is returned, wherever the
\* failing category stands in the discovery order.
C5_PartialFailure ==
    pc # "start" =>
      \A t \in TumorNames :
         IF sources[t].kind \in FailingKinds
         THEN t \in SeqToSet(errors) /\ ~Loaded(t)
         ELSE t \notin SeqToSet(errors) /\ Loaded(t)
                 /\ FilteredRows(t) = ApplyThreshold(sources[t].rows, min_correlation)

\* C5 witness: the first discovered category fails, a later one is returned with rows.
C5_Witness ==
    /\ pc = "loaded"
    /\ sources[tumor_types[1]].kind = "unreadable"
    /\ Loaded(tumor_types[2])
    /\ FilteredRows(tumor_types[2]) # <<>>

\* C6 (as claimed): a category whose source lacks 'Gene Symbol' or 'PCC' is left
\* out of the loader's result and the run does not crash.
C6_MissingColumnTolerated ==
    \A t \in TumorNames :
       sources[t].kind \in {"no_gene", "no_pcc"} =>
          /\ pc # "crashed"
          /\ pc # "start" => ~Loaded(t)

\* C7 (as claimed): in both variants only the top max_genes_per_tumor rows of a
\* category take part in membership.
C7_CapBeforeAggregation ==
    Built =>
      \A g \in Genes, t \in DictKeys(tumor_data) :
         LET member == IF variant = "network"
                       THEN DictHas(all_genes, g) /\ DictHas(DictGet(all_genes, g), t)
                       ELSE DictHas(gene_tumors, g) /\ t \in SeqToSet(DictGet(gene_tumors, g))
         IN member => GeneRowScores(nlargest(FilteredRows(t), max_genes_per_tumor), g) # {}

\* The index of the last row of gene g in a table.
LastRowOf(rows, g) ==
    CHOOSE i \in 1..Len(rows) : rows[i].gene = g /\ \A j \in (i + 1)..Len(rows) : rows[j].gene # g

\* C8 (as claimed): a (gene, category) pair that recurs keeps the higher score.
C8_KeepsHigherScore ==
    (Built /\ variant = "network") =>
      \A i \in 1..Len(all_genes) : \A k \in 1..Len(all_genes[i].val) :
         all_genes[i].val[k].val =
            SetMax(GeneRowScores(FilteredRows(all_genes[i].val[k].key), all_genes[i].key))

\* C8 (amended): in the network a (gene, category) pair that recurs keeps the
\* score of its last row in table order; in the tree, whose membership records
\* no score, the node of the pair shows the highest score among the rows taken.
C8_KeepsLastScore ==
    Built =>
      IF variant = "network"
      THEN \A i \in 1..Len(all_genes) : \A k \in 1..Len(all_genes[i].val) :
              LET rows == FilteredRows(all_genes[i].val[k].key)
              IN all_genes[i].val[k].val = rows[LastRowOf(rows, all_genes[i].key)].pcc
      ELSE \A i \in GeneNodes :
              nodes[i].val.pcc = SetMax(AggregatedScores(nodes[i].key[2], nodes[i].key[1]))

\* C8 witness: a built network from a table where a gene recurs, higher score first.
C8_Witness ==
    /\ pc = "built" /\ variant = "network"
    /\ \E t \in DictKeys(tumor_data) : \E i, j \in 1..Len(FilteredRows(t)) :
          /\ i < j
          /\ FilteredRows(t)[i].gene = FilteredRows(t)[j].gene
          /\ FilteredRows(t)[i].pcc > FilteredRows(t)[j].pcc

\* C9: the main tumor of every cross-tumor gene is a category where the gene's
\* score is maximal, and among equal maxima the first one in aggregation order.
C9_MainTumorFirstMax ==
    (Built /\ variant = "network") =>
      /\ DictKeys(main_tumors) = {g \in DictKeys(all_genes) : Len(DictGet(all_genes, g)) > 1}
      /\ \A i \in 1..Len(main_tumors) :
            LET tp == DictGet(all_genes, main_tumors[i].key)
                m == main_tumors[i].val
            IN /\ DictHas(tp, m)
               /\ \A t \in DictKeys(tp) :
                     \/ DictGet(tp, t) < DictGet(tp, m)
                     \/ /\ DictGet(tp, t) = DictGet(tp, m)
                        /\ DictIdx(tumor_data, m) <= DictIdx(tumor_data, t)

\* C9 witness: a cross-tumor gene whose two categories tie for the maximum.
C9_Witness ==
    /\ pc = "built" /\ variant = "network"
    /\ \E i \in 1..Len(all_genes) :
          /\ Len(all_genes[i].val) = 2
          /\ all_genes[i].val[1].val = all_genes[i].val[2].val

\* C10 (as claimed): every gene node whose score lies in [min_correlation, 1.0]
\* has a final size within node_size_range.
C10_AllGeneNodesInSizeRange ==
    Built =>
      \A i \in GeneNodes :
         (min_correlation <= nodes[i].val.pcc /\ nodes[i].val.pcc <= max_correlation)
            => InSizeRange(nodes[i].val.size)

\* C10 (amended): every gene node that is not marked cross-tumor (a dot) and whose
\* score lies in [min_correlation, 1.0] has a final size within node_size_range;
\* a cross-tumor (diamond) node is enlarged and is only bounded below by sizeMin.
C10_DotNodesInSizeRange ==
    Built =>
      \A i \in GeneNodes :
         (min_correlation <= nodes[i].val.pcc /\ nodes[i].val.pcc <= max_correlation)
            => IF nodes[i].val.shape = "dot"
               THEN InSizeRange(nodes[i].val.size)
               ELSE RatLeq(RatInt(node_size_range(variant)[1]), nodes[i].val.size)

\* C10 witness: a dot gene node with a score strictly inside the input range.
C10_Witness ==
    /\ pc = "built"
    /\ \E i \in GeneNodes :
          /\ nodes[i].val.shape = "dot"
          /\ min_correlation < nodes[i].val.pcc /\ nodes[i].val.pcc < max_correlation

\* The edges from a tumor node to a gene node, and the scores of the rows of
\* the edge's (gene, tumor) pair.
GeneEdges == {i \in 1..Len(edges) : edges[i].from[1] \in TumorNames}
EdgeScores(e) == AggregatedScores(e.from[1], e.to[1])
\* lo + t * (hi - lo) with t = (s - min_correlation) / (1.0 - min_correlation),
\* for a range <<lo, hi>> given in units of 1/unit.
Interpolated(range, unit, s) ==
    Rat(range[1] * (max_correlation - min_correlation)
          + (s - min_correlation) * (range[2] - range[1]),
        unit * (max_correlation - min_correlation))

\* C11 (as claimed): the width of every edge from a tumor to a gene is
\* widthMin + t * (widthMax - widthMin) with t = (score - min) / (1.0 - min),
\* score being the score of a row of that gene in that tumor's table, in both
\* variants and for tumor-specific and cross-tumor edges alike.
C11_EdgeWidthInterpolated ==
    Built =>
      \A i \in GeneEdges :
         \E sc \in EdgeScores(edges[i]) :
            RatEq(edges[i].width, Interpolated(edge_width_range10(variant), 10, sc))

\* C12 (as claimed): t is clamped to [0, 1], so every gene node that is not
\* enlarged as cross-tumor has a size within node_size_range and every gene
\* edge a width of at most widthMax, whatever score reached the mapper.
C12_SizeAndWidthClamped ==
    Built =>
      /\ \A i \in GeneNodes : nodes[i].val.shape = "dot" => InSizeRange(nodes[i].val.size)
      /\ \A i \in GeneEdges :
            RatLeq(edges[i].width, Rat(edge_width_range10(variant)[2], 10))

\* C13: in the tree every (gene, tumor) pair that passed the filter and the cap
\* has a node carrying exactly one risk bucket: High Risk iff score >= 0.75,
\* Moderate Risk iff 0.65 <= score < 0.75, Low Risk iff score < 0.65, the score
\* being the one shown on the node; 0.75 and 0.65 fall in the higher bucket.
C13_RiskBuckets ==
    (Built /\ variant = "tree") =>
      \A t \in TumorNames, g \in Genes :
         AggregatedScores(t, g) # {} =>
            /\ DictHas(nodes, Id2(g, t))
            /\ LET n == DictGet(nodes, Id2(g, t))
               IN /\ n.pcc \in AggregatedScores(t, g)
                  /\ n.risk \in {"High Risk", "Moderate Risk", "Low Risk"}
                  /\ n.risk = "High Risk" <=> n.pcc >= 75
                  /\ n.risk = "Moderate Risk" <=> (65 <= n.pcc /\ n.pcc < 75)
                  /\ n.risk = "Low Risk" <=> n.pcc < 65

\* C13 witness: a built tree with a node at exactly 0.75 and one at exactly 0.65.
C13_Witness ==
    /\ pc = "built" /\ variant = "tree"
    /\ \E i, j \in GeneNodes :
          /\ nodes[i].val.pcc = 75 /\ nodes[i].val.risk = "High Risk"
          /\ nodes[j].val.pcc = 65 /\ nodes[j].val.risk = "Moderate Risk"

\* C14 (as claimed): with min_correlation equal to the range maximum 1.0 the
\* mapping does not divide by zero: the graph is built and every gene node that
\* is not enlarged has size sizeMax, every gene edge width widthMax.
C14_DegenerateRangeMapsToMax ==
    (min_correlation = max_correlation /\ pc \notin {"start", "loaded"}) =>
      /\ pc # "crashed"
      /\ \A i \in GeneNodes :
            nodes[i].val.shape = "dot" =>
               RatEq(nodes[i].val.size, RatInt(node_size_range(variant)[2]))
      /\ \A i \in GeneEdges :
            RatEq(edges[i].width, Rat(edge_width_range10(variant)[2], 10))

\* The edges between the central node and the node of tumor t.
CentralEdges(t) ==
    {i \in 1..Len(edges) : /\ edges[i].from = Id1(central_id(variant))
                           /\ edges[i].to = Id1(t)}
\* The loaded categories whose table is empty after the threshold.
EmptyCategories == {t \in DictKeys(tumor_data) : FilteredRows(t) = <<>>}

\* C15 (as claimed): in both variants a category whose filtered table is empty
\* has its tumor node and its edge to the central node, and no gene nodes.
C15_EmptyCategoryIncluded ==
    Built =>
      \A t \in EmptyCategories :
         /\ DictHas(nodes, Id1(t))
         /\ Cardinality(CentralEdges(t)) = 1
         /\ \A i \in 1..Len(edges) : edges[i].from # Id1(t)

\* C15 (amended): an empty filtered table is not an error and has no gene nodes
\* and a count of 0; the network still draws its tumor node and the edge to
\* GCH1, the tree leaves the category out: no tumor node and no edge.
C15_EmptyCategoryByVariant ==
    Built =>
      \A t \in EmptyCategories :
         /\ \A i \in 1..Len(edges) : edges[i].from # Id1(t)
         /\ gene_counts[t] = 0
         /\ IF variant = "network"
            THEN DictHas(nodes, Id1(t)) /\ Cardinality(CentralEdges(t)) = 1
            ELSE ~DictHas(nodes, Id1(t)) /\ CentralEdges(t) = {}

\* C15 witness: a built graph with one empty category next to one with genes.
C15_Witness ==
    /\ pc = "built"
    /\ EmptyCategories # {}
    /\ GeneNodes # {}

\* The genes attached to the node of tumor t by an edge of the built graph.
AttachedGenes(t) == {edges[i].to[1] : i \in {j \in GeneEdges : edges[j].from = Id1(t)}}

\* C16 (as claimed): for every loaded category c, gene_counts[c] is the number
\* of distinct genes attached to c's tumor node in the built graph.
C16_CountsMatchDrawnGenes ==
    Built =>
      \A t \in DictKeys(tumor_data) :
         gene_counts[t] = Cardinality(AttachedGenes(t))

\* The gene nodes drawn as cross-tumor (diamond) nodes.
CrossNodeIds == {nodes[i].key : i \in {j \in GeneNodes : nodes[j].val.shape = "diamond"}}

\* C18: with min_correlation = -1 the loader returns, for every category it
\* read, a table with exactly as many rows as the source table.
C18_NoFilterKeepsRowCount ==
    (min_correlation = -100 /\ pc # "start") =>
      /\ DictKeys(tumor_data) = {t \in DOMAIN sources : sources[t].kind = "ok"}
      /\ \A t \in DictKeys(tumor_data) : Len(FilteredRows(t)) = Len(sources[t].rows)

\* C18 witness: loaded under min_correlation = -1 from a table of two rows, one
\* of them with the lowest score -1.0.
C18_Witness ==
    /\ pc = "loaded" /\ min_correlation = -100
    /\ \E t \in DictKeys(tumor_data) :
          /\ Len(sources[t].rows) = 2
          /\ \E i \in 1..2 : sources[t].rows[i].pcc = -100

\* The indices of the source rows of category t that pass the threshold.
PassingIndices(t) ==
    {i \in 1..Len(sources[t].rows) : sources[t].rows[i].pcc >= min_correlation}

\* C19: the table the loader returns for a category lists the surviving rows in
\* source order: the k-th surviving source row is the k-th row of the table.
C19_SourceOrderKept ==
    pc # "start" =>
      \A t \in DictKeys(tumor_data) :
         /\ Len(FilteredRows(t)) = Cardinality(PassingIndices(t))
         /\ \A i \in PassingIndices(t) :
               FilteredRows(t)[Cardinality({j \in PassingIndices(t) : j <= i})]
                  = sources[t].rows[i]

\* C19 witness: a loaded table with two different surviving rows around a
\* dropped one, the lower score first.
C19_Witness ==
    /\ pc = "loaded"
    /\ \E t \in DictKeys(tumor_data) :
          /\ Len(sources[t].rows) = 3 /\ Len(FilteredRows(t)) = 2
          /\ sources[t].rows[2].pcc < min_correlation
          /\ FilteredRows(t)[1].pcc < FilteredRows(t)[2].pcc

\* C20 (as claimed): after a later run() on the same visualizer, tumor_types
\* and the keys of gene_counts are the categories of that run's data directory:
\* no gene_counts entry of a category seen only in an earlier call survives.
C20_NoStateFromEarlierRun ==
    (runs > 1 /\ pc = "done") =>
      /\ SeqToSet(tumor_types) = DOMAIN sources
      /\ DOMAIN gene_counts \subseteq DOMAIN sources

\* The edges of the built graph that touch the node of network gene g.
EdgesOfGene(g) == {i \in 1..Len(edges) : edges[i].to = Id1(g) \/ edges[i].from = Id1(g)}

\* C21 (as claimed): in the GCH1 network every gene of the membership is drawn
\* as exactly one gene node: a dot with exactly one edge, to its tumor, when it
\* is in one tumor; a diamond with exactly one edge to each of its tumors and
\* to no other node when it is in several.
C21_OneNodePerGene ==
    (Built /\ variant = "network") =>
      \A k \in 1..Len(all_genes) :
         LET g == all_genes[k].key
             ts == DictKeys(all_genes[k].val)
         IN /\ Cardinality({i \in 1..Len(nodes) : nodes[i].key = Id1(g)}) = 1
            /\ DictGet(nodes, Id1(g)).kind = "gene"
            /\ DictGet(nodes, Id1(g)).shape = (IF Cardinality(ts) = 1 THEN "dot" ELSE "diamond")
            /\ \A i \in EdgesOfGene(g) : edges[i].to = Id1(g) /\ edges[i].from[1] \in ts
            /\ \A t \in ts :
                  Cardinality({i \in EdgesOfGene(g) : edges[i].from = Id1(t)}) = 1

\* C28 (as claimed): in the tree every node of a gene that has rows in more
\* than one tumor has 1.5 times the size derived from its correlation, and
\* every node of a gene of a single tumor has exactly the derived size.
C28_CrossNodesEnlargedOnce ==
    (Built /\ variant = "tree") =>
      \A i \in GeneNodes :
         LET base == GeneNodeSize("tree", nodes[i].val.pcc, min_correlation)
         IN IF Cardinality(TumorsOfGene(nodes[i].key[1])) > 1
            THEN RatEq(nodes[i].val.size, Rat(base.num * 3, base.den * 2))
            ELSE RatEq(nodes[i].val.size, base)

\* The discovered categories whose load failed.
FailedCategories == {t \in SeqToSet(tumor_types) : ~Loaded(t)}

\* C29 (as claimed): when run() has returned, a category whose load failed has
\* no tumor node, no edge, no legend entry and no gene_counts entry.
C29_FailedCategoryAbsent ==
    pc = "done" =>
      \A t \in FailedCategories :
         /\ ~DictHas(nodes, Id1(t))
         /\ \A i \in 1..Len(edges) : edges[i].from # Id1(t) /\ edges[i].to # Id1(t)
         /\ t \notin SeqToSet(legend)
         /\ t \notin DOMAIN gene_counts

\* GCH1 and the tumor nodes of the page.
CentralAndTumorNodes ==
    {id \in PageNodes : DictGet(nodes, id).kind \in {"central", "tumor"}}

\* C22: in the network page the central GCH1 node and every tumor node are
\* position-fixed after any sequence of clicks on the five control buttons.
C22_AnchorsStayFixed ==
    page = "network" => \A id \in CentralAndTumorNodes : node_fixed[id]

\* C22 witness: Enable Dragging was clicked, a gene node has been dragged away
\* and GCH1 is fixed.
C22_Witness ==
    /\ page = "network"
    /\ last_event = "unfreeze"
    /\ node_fixed[Id1("GCH1")]
    /\ \E id \in PageNodes : position[id] # 0

\* C23 (as claimed): right after a click on Reset & Stabilize every node is
\* where it was when the network was first drawn, and physics is off.
C23_ResetRestoresInitial ==
    (page = "network" /\ last_event = "reset") =>
      /\ position = [id \in PageNodes |-> 0]
      /\ ~physics

\* The two outcomes of the initialisation.
ListenersRegisteredOnce ==
    listeners = 1 /\ status.text # "Error: Network not initialized"
NetworkErrorShown ==
    listeners = 0 /\ status.text = "Error: Network not initialized"

\* C24 (as claimed): the initialisation of the network page ends in exactly
\* one of two outcomes and stays there: the click listeners were registered
\* exactly once, or the status indicator shows 'Error: Network not initialized'.
C24_InitialisationEnds == <>[](ListenersRegisteredOnce \/ NetworkErrorShown)

ClickTexts(button) ==
    CASE button = "cluster" -> {"Clustering..."}
      [] button = "expand" -> {"Expanding..."}
      [] button = "reset" -> {"Resetting..."}
      [] button = "fix" -> {"Positions Fixed", "Positions Unfrozen"}
      [] button = "drag" -> {"Dragging Enabled"}
      [] OTHER -> {}

\* C27 (as claimed): in the tree page the status text corresponds to the most
\* recent click: a click leaves the text of its button, and a timer set before
\* the most recent click neither rewrites the status nor stops the simulation
\* when it fires.
C27_StatusFollowsLastClick ==
    [][page = "tree" =>
          /\ clicks' = clicks + 1 => status'.text \in ClickTexts(last_event')
          /\ (timers # <<>> /\ timers' = Tail(timers) /\ Head(timers).click < clicks)
                => (status' = status /\ simulating' = simulating)]_vars

====
